---- MODULE Spec2Model ----
(***************************************************************************)
(* Model of src/app.py: the structured-response parser parse_ai_response,  *)
(* the OpenFoodFacts lookup search_openfoodfacts and the "Analyze Product" *)
(* button handler that combines them and writes st.session_state['data'].  *)
(*                                                                         *)
(* A Python string is a sequence of atoms.  Every atom stands for a fixed  *)
(* piece of text; the atoms are chosen so that no piece the code searches  *)
(* for (a label, "Yes", ":", a newline) can straddle two atoms.            *)
(***************************************************************************)
EXTENDS Integers, Sequences, FiniteSets, TLC

VARIABLES
    text,           \* parse_ai_response: the argument
    pcP,            \* parse_ai_response: position ("call", "loop", "done")
    lines,          \* parse_ai_response: text.split('\n')
    idx,            \* parse_ai_response: index of the next line of the for loop
    data,           \* parse_ai_response: the dictionary being filled
    raised,         \* parse_ai_response: TRUE once an exception left the function
    product_name,   \* search_openfoodfacts: the argument
    http,           \* search_openfoodfacts: what the request will meet
    pcL,            \* search_openfoodfacts: position ("call", "wait", "done")
    requests,       \* search_openfoodfacts: requests.get calls made
    result,         \* search_openfoodfacts: the returned value
    api_key,        \* sidebar: TRUE when the key field is not empty
    session,        \* st.session_state: << >> without 'data', else <<record>>
    pc,             \* Analyze handler: "idle", "model" or "lookup"
    error,          \* Analyze handler: second component of analyze_image_with_ai
    extracted,      \* Analyze handler: what parse_ai_response returned
    db_data,        \* Analyze handler: what search_openfoodfacts returned
    lookupKey,      \* Analyze handler: argument of the lookup call
    modelCalls,     \* Analyze handler: generate_content calls of this click
    parserCalls,    \* Analyze handler: parse_ai_response calls of this click
    lookupCalls,    \* Analyze handler: search_openfoodfacts calls of this click
    shown           \* Analyze handler: how the click ended on screen

parseVars == <<text, pcP, lines, idx, data, raised>>
lookupVars == <<product_name, http, pcL, requests, result>>
appVars == <<api_key, session, pc, error, extracted, db_data, lookupKey,
             modelCalls, parserCalls, lookupCalls, shown>>
vars == <<parseVars, lookupVars, appVars>>

\* ---------------------------------------------------------------- strings

NL == "\n"
SP == " "

LblName == "Product Name:"
LblIngr == "Ingredients:"
LblManu == "Manufacturer:"
LblCoun == "Country of Origin:"
LblHalal == "Halal Status:"

Labels == {LblName, LblIngr, LblManu, LblCoun, LblHalal}

\* The atoms a raw text handed to the parser is made of.
Atoms == Labels \cup {NL, SP, "Yes", "No"}

\* Longest raw text explored, in atoms.
MaxTextLen == 5

\* Every sequence over S of at most n elements.
SeqsUpTo(S, n) == UNION {[1..k -> S] : k \in 0..n}

Texts == SeqsUpTo(Atoms, MaxTextLen)

\* `sub in s` for a piece of text that is a single atom.
Contains(s, sub) == \E i \in 1..Len(s) : s[i] = sub

\* An atom whose text has a ':' in it (every label ends with one).
HasColon(a) == a \in Labels

\* text.split('\n'): the pieces between newlines, always at least one piece.
RECURSIVE Split(_)
Split(s) ==
    IF ~Contains(s, NL) THEN <<s>>
    ELSE LET i == CHOOSE k \in 1..Len(s) : s[k] = NL /\ \A j \in 1..(k - 1) : s[j] # NL
         IN  <<SubSeq(s, 1, i - 1)>> \o Split(SubSeq(s, i + 1, Len(s)))

IsSpace(a) == a \in {SP, NL}

\* str.strip(): leading and trailing whitespace removed.
RECURSIVE Strip(_)
Strip(s) ==
    IF s = << >> THEN s
    ELSE IF IsSpace(s[1]) THEN Strip(Tail(s))
    ELSE IF IsSpace(s[Len(s)]) THEN Strip(SubSeq(s, 1, Len(s) - 1))
    ELSE s

\* line.split(":", 1): one piece when the line has no colon, otherwise the
\* text before the first colon and the whole text after it.
SplitColon(line) ==
    IF \A i \in 1..Len(line) : ~HasColon(line[i]) THEN <<line>>
    ELSE LET i == CHOOSE k \in 1..Len(line) :
                      HasColon(line[k]) /\ \A j \in 1..(k - 1) : ~HasColon(line[j])
         IN  <<SubSeq(line, 1, i), SubSeq(line, i + 1, Len(line))>>

\* ------------------------------------------------------ parse_ai_response

DefaultData ==
    [ProductName |-> << >>, Ingredients |-> << >>, Manufacturer |-> << >>,
     Country |-> << >>, HalalCertified |-> FALSE]

\* The field the if/elif chain selects for a line ("none": no branch taken).
Branch(line) ==
    IF Contains(line, LblName) THEN "ProductName"
    ELSE IF Contains(line, LblIngr) THEN "Ingredients"
    ELSE IF Contains(line, LblManu) THEN "Manufacturer"
    ELSE IF Contains(line, LblCoun) THEN "Country"
    ELSE IF Contains(line, LblHalal) THEN "HalalCertified"
    ELSE "none"

\* line.split(":", 1)[1] raises IndexError when the split has one piece.
ValueRaises(line) == Len(SplitColon(line)) < 2

\* line.split(":", 1)[1].strip()
Value(line) == Strip(SplitColon(line)[2])

\* ParseLine with the flag assigned on every Halal Status line (last line wins).
ParseLine_HalalLastWins(d, line) ==
    LET b == Branch(line)
    IN  IF b = "none" THEN d
        ELSE IF b = "HalalCertified"
             THEN [d EXCEPT !.HalalCertified = Contains(line, "Yes")]
        ELSE [d EXCEPT ![b] = Value(line)]

\* ParseLine that keeps a text field once it holds a text (first line wins).
ParseLine_FirstWins(d, line) ==
    LET b == Branch(line)
    IN  IF b = "none" THEN d
        ELSE IF b = "HalalCertified"
             THEN IF Contains(line, "Yes") THEN [d EXCEPT !.HalalCertified = TRUE] ELSE d
        ELSE IF d[b] # << >> THEN d
        ELSE [d EXCEPT ![b] = Value(line)]

\* ParseLine without the strip().
ParseLine_NoStrip(d, line) ==
    LET b == Branch(line)
    IN  IF b = "none" THEN d
        ELSE IF b = "HalalCertified"
             THEN IF Contains(line, "Yes") THEN [d EXCEPT !.HalalCertified = TRUE] ELSE d
        ELSE [d EXCEPT ![b] = SplitColon(line)[2]]

\* ParseLine that looks for "Yes" on every line, labelled or not.
ParseLine_YesAnywhere(d, line) ==
    LET b == Branch(line)
    IN  IF b \in {"none", "HalalCertified"}
        THEN IF Contains(line, "Yes") THEN [d EXCEPT !.HalalCertified = TRUE] ELSE d
        ELSE [d EXCEPT ![b] = Value(line)]

\* One pass of the loop body over `line`, starting from dictionary d.
ParseLine(d, line) ==
    LET b == Branch(line)
    IN  IF b = "none" THEN d
        ELSE IF b = "HalalCertified"
             THEN IF Contains(line, "Yes") THEN [d EXCEPT !.HalalCertified = TRUE] ELSE d
        ELSE [d EXCEPT ![b] = Value(line)]

LineRaises(line) == Branch(line) \notin {"none", "HalalCertified"} /\ ValueRaises(line)

RECURSIVE ParseFrom(_, _, _)
ParseFrom(d, ls, i) ==
    IF i > Len(ls) THEN d ELSE ParseFrom(ParseLine(d, ls[i]), ls, i + 1)

\* The dictionary parse_ai_response returns for a text on which it does not raise.
parse_ai_response(t) == ParseFrom(DefaultData, Split(t), 1)

ParseRaises(t) == \E i \in 1..Len(Split(t)) : LineRaises(Split(t)[i])

\* --------------------------------------------------- search_openfoodfacts

\* An optional value: << >> is None, <<x>> is x.
None == << >>
Some(x) == <<x>>

Keys == {"ingredients_text", "countries", "brands"}

\* The text a product of the database holds under a key it has.
DbValue(k) ==
    CASE k = "ingredients_text" -> <<"Cocoa">>
      [] k = "countries" -> <<"France">>
      [] k = "brands" -> <<"Acme">>

\* A product of the response is the set of the keys it has; the products
\* explored have all three keys or lack one of them.
Products == {Keys} \cup {Keys \ {k} : k \in Keys}

\* Longest list under 'products' explored.
MaxProducts == 2

\* What one GET can meet: requests.get raising (network failure, timeout),
\* response.json() raising (empty or unparsable body), a JSON object without
\* 'products', or a JSON object whose 'products' is a list.
Responses ==
    {[kind |-> k, products |-> << >>] : k \in {"neterror", "timeout", "badjson", "nokey"}}
        \cup {[kind |-> "json", products |-> ps] : ps \in SeqsUpTo(Products, MaxProducts)}

\* product.get(k, default)
Get(product, k, default) == IF k \in product THEN DbValue(k) ELSE default

\* search_openfoodfacts taking the last product of the list.
search_openfoodfacts_Last(name, resp) ==
    IF resp.kind # "json" THEN None
    ELSE IF resp.products = << >> THEN None
    ELSE LET product == resp.products[Len(resp.products)]
         IN  Some([Ingredients |-> Get(product, "ingredients_text", <<"Not found in DB">>),
                   Country |-> Get(product, "countries", <<"Unknown">>),
                   Manufacturer |-> Get(product, "brands", <<"Unknown">>)])

\* The value search_openfoodfacts returns when its request meets `resp`.
search_openfoodfacts(name, resp) ==
    IF resp.kind # "json" THEN None
    ELSE IF resp.products = << >> THEN None
    ELSE LET product == resp.products[1]
         IN  Some([Ingredients |-> Get(product, "ingredients_text", <<"Not found in DB">>),
                   Country |-> Get(product, "countries", <<"Unknown">>),
                   Manufacturer |-> Get(product, "brands", <<"Unknown">>)])

\* --------------------------------------------------------- Analyze handler

\* len() of a string: the characters of its atoms.
RECURSIVE StrLen(_)
StrLen(s) == IF s = << >> THEN 0 ELSE Len(s[1]) + StrLen(Tail(s))

\* The length under which an Ingredients text counts as missing.
IngredientsMinLen == 5

\* NeedsLookup with the length test off by one.
NeedsLookup_AtMost5(d) ==
    d.Ingredients = <<"Not Visible">> \/ StrLen(d.Ingredients) <= IngredientsMinLen

\* The condition under which the handler searches the database.
NeedsLookup(d) ==
    d.Ingredients = <<"Not Visible">> \/ StrLen(d.Ingredients) < IngredientsMinLen

\* Merge that takes the country of the database whatever the record holds.
Merge_CountryAlways(d, db) ==
    IF db = None THEN d
    ELSE [d EXCEPT !.Ingredients = db[1].Ingredients, !.Country = db[1].Country]

\* Merge that empties the ingredients when the search found nothing.
Merge_ClearsOnNone(d, db) ==
    IF db = None THEN [d EXCEPT !.Ingredients = << >>]
    ELSE LET withIngr == [d EXCEPT !.Ingredients = db[1].Ingredients]
         IN  IF d.Country = << >> THEN [withIngr EXCEPT !.Country = db[1].Country]
             ELSE withIngr

\* The record after the handler has merged a lookup result into it.
Merge(d, db) ==
    IF db = None THEN d
    ELSE LET withIngr == [d EXCEPT !.Ingredients = db[1].Ingredients]
         IN  IF d.Country = << >> THEN [withIngr EXCEPT !.Country = db[1].Country]
             ELSE withIngr

\* `if error:` of the handler: None and the empty string are both false.
Truthy(e) == e # None /\ e[1] # << >>

\* The atoms a model reply is made of in the handler's runs.
RespAtoms == {LblName, LblIngr, LblCoun, LblHalal, NL, "Yes", "Not Visible", "Sugar"}

\* Longest model reply explored, in atoms.
MaxRespLen == 2

RespTexts == SeqsUpTo(RespAtoms, MaxRespLen)

\* str(e) of an exception raised by generate_content.
ExcMessages == {<< >>, <<"quota exceeded">>}

NoKeyMessage == <<"Please enter an API Key first.">>

\* ------------------------------------------------------------ initial state

ParseIdle ==
    /\ pcP = "call"
    /\ lines = << >>
    /\ idx = 0
    /\ data = DefaultData
    /\ raised = FALSE

LookupIdle ==
    /\ pcL = "call"
    /\ requests = 0
    /\ result = None

AppIdle ==
    /\ api_key = FALSE
    /\ session = None
    /\ pc = "idle"
    /\ error = None
    /\ extracted = None
    /\ db_data = None
    /\ lookupKey = None
    /\ modelCalls = 0
    /\ parserCalls = 0
    /\ lookupCalls = 0
    /\ shown = "none"

\* ------------------------------------- parse_ai_response, run step by step

InitParse ==
    /\ text \in Texts
    /\ ParseIdle
    /\ product_name = << >>
    /\ http = [kind |-> "neterror", products |-> << >>]
    /\ LookupIdle
    /\ AppIdle

ParseCall ==
    /\ pcP = "call"
    /\ data' = DefaultData
    /\ lines' = Split(text)
    /\ idx' = 1
    /\ pcP' = "loop"
    /\ UNCHANGED <<text, raised, lookupVars, appVars>>

ParseLoop ==
    /\ pcP = "loop"
    /\ idx <= Len(lines)
    /\ IF LineRaises(lines[idx])
       THEN /\ raised' = TRUE
            /\ pcP' = "done"
            /\ UNCHANGED <<data, idx>>
       ELSE /\ data' = ParseLine(data, lines[idx])
            /\ idx' = idx + 1
            /\ UNCHANGED <<raised, pcP>>
    /\ UNCHANGED <<text, lines, lookupVars, appVars>>

ParseReturn ==
    /\ pcP = "loop"
    /\ idx > Len(lines)
    /\ pcP' = "done"
    /\ UNCHANGED <<text, lines, idx, data, raised, lookupVars, appVars>>

NextParse == ParseCall \/ ParseLoop \/ ParseReturn

SpecParse == InitParse /\ [][NextParse]_vars

\* ---------------------------------- search_openfoodfacts, run step by step

Names == {<< >>, <<"Salt">>, <<"Salt", "Sugar">>}

InitLookup ==
    /\ text = << >>
    /\ ParseIdle
    /\ product_name \in Names
    /\ http \in Responses
    /\ LookupIdle
    /\ AppIdle

\* requests.get(url, timeout=10)
SearchRequest ==
    /\ pcL = "call"
    /\ requests' = requests + 1
    /\ pcL' = "wait"
    /\ UNCHANGED <<product_name, http, result, parseVars, appVars>>

\* The rest of the try block, or the except clause.
SearchReturn ==
    /\ pcL = "wait"
    /\ result' = search_openfoodfacts(product_name, http)
    /\ pcL' = "done"
    /\ UNCHANGED <<product_name, http, requests, parseVars, appVars>>

NextLookup == SearchRequest \/ SearchReturn

SpecLookup == InitLookup /\ [][NextLookup]_vars

\* ------------------------------------------------- the application's runs

Init ==
    /\ text = << >>
    /\ ParseIdle
    /\ product_name = << >>
    /\ http = [kind |-> "neterror", products |-> << >>]
    /\ LookupIdle
    /\ AppIdle

\* The user fills or clears the key field of the sidebar.
SetApiKey ==
    /\ pc = "idle"
    /\ api_key' = ~api_key
    /\ UNCHANGED <<session, pc, error, extracted, db_data, lookupKey,
                   modelCalls, parserCalls, lookupCalls, shown>>
    /\ UNCHANGED <<parseVars, lookupVars>>

\* The button is pressed: analyze_image_with_ai up to the generate_content call.
AnalyzeClick ==
    /\ pc = "idle"
    /\ extracted' = None
    /\ db_data' = None
    /\ lookupKey' = None
    /\ parserCalls' = 0
    /\ lookupCalls' = 0
    /\ IF ~api_key
       THEN /\ error' = Some(NoKeyMessage)
            /\ modelCalls' = 0
            /\ shown' = "error"
            /\ pc' = "idle"
       ELSE /\ error' = None
            /\ modelCalls' = 1
            /\ shown' = "none"
            /\ pc' = "model"
    /\ UNCHANGED <<api_key, session, parseVars, lookupVars>>

\* generate_content raises: analyze_image_with_ai returns (None, str(e)).
\* A false str(e) sends the handler into parse_ai_response(None), which raises
\* at text.split and ends the script run.
ModelRaises ==
    /\ pc = "model"
    /\ \E m \in ExcMessages :
        /\ error' = Some(m)
        /\ IF Truthy(Some(m))
           THEN /\ shown' = "error"
                /\ parserCalls' = parserCalls
           ELSE /\ shown' = "crash"
                /\ parserCalls' = parserCalls + 1
    /\ pc' = "idle"
    /\ UNCHANGED <<api_key, session, extracted, db_data, lookupKey, modelCalls, lookupCalls>>
    /\ UNCHANGED <<parseVars, lookupVars>>

\* generate_content returns a text: the handler parses it, then either stores
\* the record or starts the database search.
ModelReturns ==
    /\ pc = "model"
    /\ \E t \in RespTexts :
        /\ error' = None
        /\ parserCalls' = parserCalls + 1
        /\ IF ParseRaises(t)
           THEN /\ shown' = "crash"
                /\ pc' = "idle"
                /\ UNCHANGED <<extracted, lookupKey, lookupCalls, session>>
           ELSE LET d == parse_ai_response(t)
                IN  /\ extracted' = Some(d)
                    /\ IF NeedsLookup(d)
                       THEN /\ lookupKey' = Some(d.ProductName)
                            /\ lookupCalls' = lookupCalls + 1
                            /\ pc' = "lookup"
                            /\ UNCHANGED <<session, shown>>
                       ELSE /\ session' = Some(d)
                            /\ shown' = "form"
                            /\ pc' = "idle"
                            /\ UNCHANGED <<lookupKey, lookupCalls>>
    /\ UNCHANGED <<api_key, db_data, modelCalls, parseVars, lookupVars>>

\* search_openfoodfacts returns: the handler merges what it got and stores the record.
LookupReturns ==
    /\ pc = "lookup"
    /\ \E resp \in Responses :
        LET db == search_openfoodfacts(lookupKey[1], resp)
        IN  /\ db_data' = db
            /\ session' = Some(Merge(extracted[1], db))
    /\ shown' = "form"
    /\ pc' = "idle"
    /\ UNCHANGED <<api_key, error, extracted, lookupKey, modelCalls, parserCalls, lookupCalls>>
    /\ UNCHANGED <<parseVars, lookupVars>>

Next == SetApiKey \/ AnalyzeClick \/ ModelRaises \/ ModelReturns \/ LookupReturns

Spec == Init /\ [][Next]_vars

\* ------------------------------------------------- properties of the parser

\* `phrase in s` for a phrase of several atoms.
HasPhrase(s, phrase) ==
    \E i \in 1..(Len(s) - Len(phrase) + 1) : SubSeq(s, i, i + Len(phrase) - 1) = phrase

HalalYes == <<LblHalal, SP, "Yes">>
HalalNo == <<LblHalal, SP, "No">>

TextLabels == {LblName, LblIngr, LblManu, LblCoun}

\* The labels the chain tests before label l.
Earlier(l) ==
    CASE l = LblName -> {}
      [] l = LblIngr -> {LblName}
      [] l = LblManu -> {LblName, LblIngr}
      [] l = LblCoun -> {LblName, LblIngr, LblManu}
      [] l = LblHalal -> {LblName, LblIngr, LblManu, LblCoun}

FieldOf(l) ==
    CASE l = LblName -> "ProductName"
      [] l = LblIngr -> "Ingredients"
      [] l = LblManu -> "Manufacturer"
      [] l = LblCoun -> "Country"
      [] l = LblHalal -> "HalalCertified"

\* The line carries label l and none of the labels tested before l.
Carries(line, l) == Contains(line, l) /\ \A e \in Earlier(l) : ~Contains(line, e)

\* The line begins with label l.
BeginsWith(line, l) == Len(line) >= 1 /\ line[1] = l

\* The text after the first occurrence of label l in the line, trimmed.
AfterLabel(line, l) ==
    LET i == CHOOSE k \in 1..Len(line) : line[k] = l /\ \A j \in 1..(k - 1) : line[j] # l
    IN  Strip(SubSeq(line, i + 1, Len(line)))

\* The lines of `text` that contain label l, and those that carry it.
LinesWith(l) == {i \in 1..Len(lines) : Contains(lines[i], l)}
LinesCarrying(l) == {i \in 1..Len(lines) : Carries(lines[i], l)}

Last(S) == CHOOSE i \in S : \A j \in S : j <= i

Returned == pcP = "done" /\ ~raised

\* C1 as claimed: a line with `Halal Status: Yes` makes Halal Certified true,
\* and a text with `Halal Status: No` and no "Yes" on any line leaves it false.
C1_AsClaimed ==
    Returned =>
        /\ (\E i \in 1..Len(lines) : HasPhrase(lines[i], HalalYes)) => data.HalalCertified
        /\ ((\E i \in 1..Len(lines) : HasPhrase(lines[i], HalalNo))
                /\ \A i \in 1..Len(lines) : ~Contains(lines[i], "Yes")) => ~data.HalalCertified

\* C1 amended: a line with `Halal Status: Yes` that has none of the four other
\* labels makes Halal Certified true; a text with `Halal Status: No` and no
\* "Yes" on any line leaves it false.
C1_HalalYesNo ==
    Returned =>
        /\ (\E i \in 1..Len(lines) :
                /\ HasPhrase(lines[i], HalalYes)
                /\ \A l \in TextLabels : ~Contains(lines[i], l)) => data.HalalCertified
        /\ ((\E i \in 1..Len(lines) : HasPhrase(lines[i], HalalNo))
                /\ \A i \in 1..Len(lines) : ~Contains(lines[i], "Yes")) => ~data.HalalCertified

\* C1 witness: a two-line text whose `Halal Status: Yes` line set the flag.
C1_Witness ==
    /\ Returned
    /\ Len(lines) = 2
    /\ HasPhrase(lines[1], HalalYes)
    /\ \A l \in TextLabels : ~Contains(lines[1], l)
    /\ data.HalalCertified

\* C2 as claimed: for each of the five labels found on two or more lines, the
\* field holds the value of the last line that has the label.
C2_AsClaimed ==
    Returned =>
        \A l \in Labels :
            Cardinality(LinesWith(l)) >= 2 =>
                LET v == Value(lines[Last(LinesWith(l))])
                IN  IF l = LblHalal THEN data.HalalCertified = Contains(v, "Yes")
                    ELSE data[FieldOf(l)] = v

\* C2 amended: for each of the four text labels found on two or more lines, the
\* field holds the value (the text after the line's first colon, trimmed) of the
\* last line that carries the label and none of the labels tested before it,
\* and is empty when no line does; Halal Certified is not decided by the last
\* line: it is true exactly when some line that carries `Halal Status:` and
\* none of the other labels contains "Yes".
C2_LastCarryingLineWins ==
    Returned =>
        /\ \A l \in TextLabels :
            Cardinality(LinesWith(l)) >= 2 =>
                data[FieldOf(l)] =
                    IF LinesCarrying(l) = {} THEN << >>
                    ELSE Value(lines[Last(LinesCarrying(l))])
        /\ Cardinality(LinesWith(LblHalal)) >= 2 =>
                data.HalalCertified =
                    \E i \in LinesCarrying(LblHalal) : Contains(lines[i], "Yes")

\* C2 witness: two Product Name lines with different values, the second kept.
C2_Witness ==
    /\ Returned
    /\ Cardinality(LinesCarrying(LblName)) = 2
    /\ Value(lines[1]) # Value(lines[2])
    /\ Value(lines[1]) # << >>
    /\ data.ProductName = Value(lines[2])

\* A loop pass over the line at idx.
LoopPass == pcP = "loop" /\ idx <= Len(lines) /\ idx' = idx + 1

\* C3 as claimed: a loop pass changes a field only when the line begins with
\* the field's label, a text field then holds the text after the first colon,
\* trimmed, and a line that begins with no label changes nothing.
C3_AsClaimed ==
    [][LoopPass =>
        /\ \A l \in Labels :
            data'[FieldOf(l)] # data[FieldOf(l)] =>
                /\ BeginsWith(lines[idx], l)
                /\ l \in TextLabels => data'[FieldOf(l)] = Value(lines[idx])
        /\ (\A l \in Labels : ~BeginsWith(lines[idx], l)) => data' = data]_vars

\* C3 amended: a loop pass changes a field only when the line carries the
\* field's label and none of the labels tested before it; a text field then
\* holds the text after the first colon of the line, trimmed; Halal Certified
\* only ever changes to true, and only when the line contains "Yes"; a line
\* that contains no label changes nothing, and a pass changes at most one field.
C3_LineUpdatesCarriedField ==
    [][LoopPass =>
        /\ \A l \in Labels :
            data'[FieldOf(l)] # data[FieldOf(l)] =>
                /\ Carries(lines[idx], l)
                /\ l \in TextLabels => data'[FieldOf(l)] = Value(lines[idx])
                /\ l = LblHalal => data'.HalalCertified /\ Contains(lines[idx], "Yes")
                /\ \A m \in Labels \ {l} : data'[FieldOf(m)] = data[FieldOf(m)]
        /\ \A l \in TextLabels :
            Carries(lines[idx], l) => data'[FieldOf(l)] = Value(lines[idx])
        /\ (\A l \in Labels : ~Contains(lines[idx], l)) => data' = data]_vars

\* C3 witness: a pass over a line that has text before `Product Name:` and
\* spaces around the value has stored the trimmed value.
C3_Witness ==
    /\ pcP = "loop"
    /\ idx = 2
    /\ Len(lines[1]) = 5
    /\ lines[1][2] = LblName
    /\ lines[1][3] = SP
    /\ lines[1][5] = SP
    /\ data.ProductName = <<lines[1][4]>>
    /\ lines[1][4] \in {"Yes", "No"}

\* C4 as claimed: Halal Certified is true exactly when some line has
\* `Halal Status:` followed, after that colon, by a text that contains "Yes".
C4_AsClaimed ==
    Returned =>
        (data.HalalCertified <=>
            \E i \in LinesWith(LblHalal) : Contains(AfterLabel(lines[i], LblHalal), "Yes"))

\* C5: a text that contains none of the five labels gives the default record,
\* and the parser returns it without raising.
C5_NoLabelGivesDefault ==
    (\A l \in Labels : ~Contains(text, l)) =>
        /\ ~raised
        /\ pcP # "call" => data = DefaultData

\* C5 witness: a returned default record for a label-free text of several
\* lines with "Yes" in it.
C5_Witness ==
    /\ Returned
    /\ \A l \in Labels : ~Contains(text, l)
    /\ Len(lines) >= 2
    /\ Contains(text, "Yes")
    /\ data = DefaultData

\* --------------------------------------------------- properties of the lookup

Sentinel(k) == IF k = "ingredients_text" THEN <<"Not found in DB">> ELSE <<"Unknown">>

FromProduct(p, k) == IF k \in p THEN DbValue(k) ELSE Sentinel(k)

\* C9: search_openfoodfacts makes one request; it returns None on a network
\* failure, a timeout, an unparsable body, a missing or an empty product list,
\* and otherwise the triple of the first product, with 'Not found in DB' or
\* 'Unknown' for each key that product lacks.
C9_SearchResult ==
    /\ requests <= 1
    /\ pcL = "done" =>
        /\ requests = 1
        /\ IF http.kind # "json" \/ Len(http.products) = 0
           THEN result = None
           ELSE result = Some([Ingredients |-> FromProduct(http.products[1], "ingredients_text"),
                               Country |-> FromProduct(http.products[1], "countries"),
                               Manufacturer |-> FromProduct(http.products[1], "brands")])

\* C9 witness: a list of two different products, the first without a brand.
C9_Witness ==
    /\ pcL = "done"
    /\ http.kind = "json"
    /\ Len(http.products) = 2
    /\ http.products[1] = Keys \ {"brands"}
    /\ http.products[2] = Keys
    /\ result = Some([Ingredients |-> <<"Cocoa">>, Country |-> <<"France">>,
                      Manufacturer |-> <<"Unknown">>])

\* -------------------------------------------------- properties of the handler

\* The parser has returned a record in the current click.
Parsed == extracted # None

\* C6: in one click the lookup runs exactly when the parsed Ingredients is
\* "Not Visible" or shorter than 5 characters, never more than once, and its
\* argument is the parsed Product Name.
C6_LookupIffIngredientsMissing ==
    /\ lookupCalls <= 1
    /\ ~Parsed => lookupCalls = 0 /\ lookupKey = None
    /\ Parsed =>
        /\ lookupCalls = 1 <=>
            (extracted[1].Ingredients = <<"Not Visible">>
                \/ StrLen(extracted[1].Ingredients) < 5)
        /\ lookupCalls = 1 => lookupKey = Some(extracted[1].ProductName)
        /\ lookupCalls = 0 => lookupKey = None

\* C6 witness: a lookup is under way for the parsed Product Name, the parsed
\* Ingredients being empty, while the session holds an earlier record.
C6_Witness ==
    /\ pc = "lookup"
    /\ lookupCalls = 1
    /\ extracted[1].ProductName = <<"Sugar">>
    /\ extracted[1].Ingredients = << >>
    /\ lookupKey = Some(<<"Sugar">>)
    /\ session # None

\* The click has ended after a lookup.
LookedUp == pc = "idle" /\ lookupCalls = 1

\* C7: after a lookup that returned a result, the stored record has the
\* Ingredients of the result, the Country of the result only if the parsed
\* Country was empty, and the parsed Product Name, Manufacturer and flag.
C7_MergeOnResult ==
    (LookedUp /\ db_data # None) =>
        /\ session # None
        /\ session[1].Ingredients = db_data[1].Ingredients
        /\ session[1].Country =
              IF extracted[1].Country = << >> THEN db_data[1].Country
              ELSE extracted[1].Country
        /\ session[1].ProductName = extracted[1].ProductName
        /\ session[1].Manufacturer = extracted[1].Manufacturer
        /\ session[1].HalalCertified = extracted[1].HalalCertified

\* C7 witness: the parsed Country was kept and the Ingredients replaced.
C7_Witness ==
    /\ LookedUp
    /\ db_data # None
    /\ extracted[1].Country = <<"Sugar">>
    /\ session[1].Country = <<"Sugar">>
    /\ db_data[1].Country = <<"France">>
    /\ session[1].Ingredients = <<"Cocoa">>

\* C8: after a lookup that returned nothing, the click has ended with the
\* parsed record stored unchanged.
C8_NoDataKeepsRecord ==
    (LookedUp /\ db_data = None) =>
        /\ shown = "form"
        /\ session = extracted

\* C8 witness: "Not Visible" stayed in the stored record.
C8_Witness ==
    /\ LookedUp
    /\ db_data = None
    /\ session # None
    /\ session[1].Ingredients = <<"Not Visible">>

\* The click ended in an error: no key, or generate_content raised.
Failed == pc = "idle" /\ error # None

\* C10 as claimed: a click that fails calls the model at most once, and not
\* at all without a key, and runs neither the parser nor the lookup.
C10_AsClaimed ==
    Failed =>
        /\ modelCalls <= 1
        /\ error = Some(NoKeyMessage) => modelCalls = 0
        /\ parserCalls = 0
        /\ lookupCalls = 0

====
